---- MODULE Spec2Model ----
(***************************************************************************)
(* Model of src/main.py: get_top_languages and build_language_table.       *)
(*                                                                         *)
(* One call of get_top_languages is a run.  A run reads and writes the two *)
(* cache files (repos_cache.json, languages_cache.json), asks the remote   *)
(* API for the repository list page by page and for one language map per   *)
(* repository, and ends with one outcome.  The remote data is fixed during *)
(* a behaviour; every remote request may answer with a non-success status. *)
(*                                                                         *)
(* A language map and the Counter of totals are sequences of               *)
(* [lang, bytes] records with distinct lang, in dict insertion order.      *)
(*                                                                         *)
(* The runs of the model have passed the configuration check of lines      *)
(* 37-44.  The cache files hold JSON that is absent, truncated, not an     *)
(* object, or an object with or without its payload key; a payload of the  *)
(* wrong JSON type is not modelled.                                        *)
(***************************************************************************)
EXTENDS Integers, Sequences, FiniteSets, TLC

\* ---- bounds of the model ----
MaxRepos == 2               \* longest remote repository list
MaxTopN  == 2               \* largest top_n passed to a run
PerPage  == 1               \* repositories the remote returns per page

RepoNames == {"a", "b", "c"}
ForkOf    == [n \in RepoNames |-> n = "b"]
Repo(n)   == [full_name |-> n, fork |-> ForkOf[n]]
TopNs     == (0 - 1)..MaxTopN

Entry(l, b) == [lang |-> l, bytes |-> b]
\* language maps the remote serves
RemoteMaps == { << >>,
                << Entry("Py", 1), Entry("Go", 2) >>,
                << Entry("Py", 0) >> }
\* content of a snapshot left behind by an earlier day
OldRepo == [full_name |-> "z", fork |-> FALSE]
OldMap  == << Entry("Cobol", 1) >>

\* language maps of the ranking specification: every map over RankLangs with
\* at most MaxBytes bytes per language, in every key order
MaxBytes  == 2
RankLangs == {"C", "Go", "Py"}
RECURSIVE MapsOver(_)
MapsOver(ls) ==
    { << >> } \cup
    UNION { { << Entry(l, b) >> \o m : b \in 0..MaxBytes, m \in MapsOver(ls \ {l}) } :
            l \in ls }
RankMaps == MapsOver(RankLangs)

Range(s) == { s[i] : i \in 1..Len(s) }
Min(x, y) == IF x <= y THEN x ELSE y

\* sequences of distinct repository names, at most MaxRepos long
RECURSIVE NameLists(_)
NameLists(k) ==
    IF k = 0 THEN { << >> }
    ELSE LET shorter == NameLists(k - 1)
         IN  shorter \cup { Append(s, n) : s \in { t \in shorter : Len(t) = k - 1 },
                                           n \in RepoNames }
\* "a" and "c" differ in name only, so a list with "c" has "a" before it
RemoteLists ==
    { [i \in 1..Len(s) |-> Repo(s[i])] :
        s \in { t \in NameLists(MaxRepos) :
                  /\ \A i, j \in 1..Len(t) : i # j => t[i] # t[j]
                  /\ \A j \in 1..Len(t) :
                        t[j] = "c" => \E i \in 1..(j - 1) : t[i] = "a" } }

\* ---- the cache files ----
\* kind: "absent"    the file does not exist
\*       "truncated" json.load raises JSONDecodeError
\*       "nonobject" json.load returns a value that is not a dict
\*       "object"    json.load returns a dict; has_payload says whether
\*                   the "repos"/"languages" key is there
\* date: dates are kept relative to the current calendar day: "today" is
\*       the string date.today().isoformat() returns now, "other" any other
\*       value of the "date" key (or no such key)
ReposAbsent    == [kind |-> "absent", date |-> "other", has_payload |-> FALSE, repos |-> << >>]
ReposTruncated == [ReposAbsent EXCEPT !.kind = "truncated"]
ReposNonObject == [ReposAbsent EXCEPT !.kind = "nonobject"]
ReposNoPayload(d) == [ReposAbsent EXCEPT !.kind = "object", !.date = d]
ReposSnapshot(d, rs) ==
    [kind |-> "object", date |-> d, has_payload |-> TRUE, repos |-> rs]

\* the "languages" payload: a function from repository full names to maps
NoMaps == << >>
LangsAbsent    == [kind |-> "absent", date |-> "other", has_payload |-> FALSE, languages |-> NoMaps]
LangsTruncated == [LangsAbsent EXCEPT !.kind = "truncated"]
LangsNonObject == [LangsAbsent EXCEPT !.kind = "nonobject"]
LangsNoPayload(d) == [LangsAbsent EXCEPT !.kind = "object", !.date = d]
LangsSnapshot(d, m) ==
    [kind |-> "object", date |-> d, has_payload |-> TRUE, languages |-> m]

\* files a behaviour may start with: none, damaged ones, and snapshots of an
\* earlier day; snapshots of a day of the behaviour are written by runs
InitReposFiles ==
    { ReposAbsent, ReposTruncated, ReposNonObject, ReposNoPayload("today"),
      ReposSnapshot("other", << OldRepo >>) }
InitLangsFiles ==
    { LangsAbsent, LangsTruncated, LangsNonObject, LangsNoPayload("today"),
      LangsSnapshot("other", [n \in RepoNames |-> OldMap]) }

\* ---- dict and Counter operations ----
Langs(m) == { m[i].lang : i \in 1..Len(m) }
\* dict.get(lang, 0)
Get(m, l) ==
    IF l \in Langs(m) THEN (CHOOSE e \in Range(m) : e.lang = l).bytes ELSE 0

RECURSIVE SumBytes(_)
\* sum(counter.values())
SumBytes(m) == IF m = << >> THEN 0 ELSE m[1].bytes + SumBytes(Tail(m))

\* a slip: the new count replaces the old one instead of being added to it
AddEntry_Overwrite(c, e) ==
    IF e.lang \in Langs(c)
    THEN [i \in 1..Len(c) |-> IF c[i].lang = e.lang THEN e ELSE c[i]]
    ELSE Append(c, e)

\* self[elem] = count + self.get(elem, 0): a known key keeps its position,
\* a new key goes to the end
AddEntry(c, e) ==
    IF e.lang \in Langs(c)
    THEN [i \in 1..Len(c) |->
            IF c[i].lang = e.lang THEN Entry(e.lang, e.bytes + c[i].bytes) ELSE c[i]]
    ELSE Append(c, e)

RECURSIVE CounterUpdate(_, _)
\* Counter.update(mapping)
CounterUpdate(c, m) ==
    IF m = << >> THEN c ELSE CounterUpdate(AddEntry(c, m[1]), Tail(m))

\* a slip: an entry goes in front of the entries with as many bytes
InsertDesc_Unstable(s, e) ==
    LET k == Cardinality({ i \in 1..Len(s) : s[i].bytes > e.bytes })
    IN  SubSeq(s, 1, k) \o << e >> \o SubSeq(s, k + 1, Len(s))

\* position of e in a sequence sorted by descending bytes: behind every
\* entry with at least as many bytes (equal keys keep their input order)
InsertDesc(s, e) ==
    LET k == Cardinality({ i \in 1..Len(s) : s[i].bytes >= e.bytes })
    IN  SubSeq(s, 1, k) \o << e >> \o SubSeq(s, k + 1, Len(s))

RECURSIVE SortedDesc(_)
\* sorted(items, key=itemgetter(1), reverse=True)
SortedDesc(c) ==
    IF c = << >> THEN << >>
    ELSE InsertDesc(SortedDesc(SubSeq(c, 1, Len(c) - 1)), c[Len(c)])

\* a slip: the first n entries in insertion order
MostCommon_Unsorted(c, n) ==
    IF n <= 0 THEN << >> ELSE SubSeq(c, 1, Min(n, Len(c)))

\* Counter.most_common(n) with n an int: heapq.nlargest(n, items, key=bytes),
\* which is sorted(items, key=bytes, reverse=True)[:n] for n > 0 and [] for
\* n <= 0
MostCommon(c, n) ==
    IF n <= 0 THEN << >> ELSE SubSeq(SortedDesc(c), 1, Min(n, Len(c)))

\* ---- the repository filter and the table ----
\* a slip: forks are never skipped
Qualifies_Always(repo, wf) == TRUE

\* "if not with_forks and repo['fork']: continue"
Qualifies(repo, wf) == wf \/ ~repo.fork

RECURSIVE Qualifying(_, _)
\* the repositories a loop over repos does not skip, in order
Qualifying(rs, wf) ==
    IF rs = << >> THEN << >>
    ELSE (IF Qualifies(rs[1], wf) THEN << rs[1] >> ELSE << >>)
         \o Qualifying(Tail(rs), wf)

RECURSIVE Str(_)
\* str(n) of an int n >= 0: its decimal digits, the leading one first
Str(n) == IF n < 10 THEN << n >> ELSE Append(Str(n \div 10), n % 10)

\* a slip: the j-th cell is the j-th count of the repository's own map
TableRow_ByPosition(repo, languages, top) ==
    LET repo_langs == IF repo.full_name \in DOMAIN languages
                      THEN languages[repo.full_name] ELSE << >>
    IN  [name  |-> repo.full_name,
         cells |-> [j \in 1..Len(top) |->
                      Str(IF j <= Len(repo_langs) THEN repo_langs[j].bytes ELSE 0)]]

\* one row of build_language_table: str(repo_langs.get(lang, 0)) per top
\* language, behind the name of the repository
TableRow(repo, languages, top) ==
    LET repo_langs == IF repo.full_name \in DOMAIN languages
                      THEN languages[repo.full_name] ELSE << >>
    IN  [name  |-> repo.full_name,
         cells |-> [j \in 1..Len(top) |-> Str(Get(repo_langs, top[j]))]]

\* the rows of build_language_table(repos, languages_cache, top, with_forks)
build_language_table(rs, languages, top, wf) ==
    LET q == Qualifying(rs, wf)
    IN  [i \in 1..Len(q) |-> TableRow(q[i], languages, top)]

\* ---- the remote ----
\* page p of the repository listing (p >= 1)
RemotePage(list, p) ==
    SubSeq(list, (p - 1) * PerPage + 1, Min(p * PerPage, Len(list)))

\* ---- state ----
VARIABLES
    remote_repos,           \* the user's repositories on the remote, in order
    remote_langs,           \* full name -> language map on the remote
    reposFile,              \* repos_cache.json
    langsFile,              \* languages_cache.json
    pc,                     \* position of the run: "idle" between runs
    with_forks,             \* argument with_forks of the run
    top_n,                  \* argument top_n of the run; step 5 is the first
                            \* to read it, and the model draws it there (0
                            \* until then)
    repos,                  \* local repos
    page,                   \* local page
    languages_cache,        \* local languages_cache
    total_language_bytes,   \* local Counter
    cache_updated,          \* local flag
    idx,                    \* position of "for repo in repos" (1-based)
    total_bytes,            \* local total_bytes
    sorted_languages,       \* local sorted_languages
    table,                  \* rows handed to print by the report
    outcome,                \* how the last run ended, "none" before any run
    log,                    \* remote requests and file writes of the run
    reposFile0, langsFile0, \* the two files as the run found them
    prev                    \* summary of the run before this one

run_vars == << pc, top_n, with_forks, repos, page, languages_cache,
               total_language_bytes, cache_updated, idx, total_bytes,
               sorted_languages, table, outcome, log, reposFile0, langsFile0,
               prev >>
env_vars == << remote_repos, remote_langs >>
vars == << remote_repos, remote_langs, reposFile, langsFile, pc, top_n,
           with_forks, repos, page, languages_cache,
           total_language_bytes, cache_updated, idx, total_bytes,
           sorted_languages, table, outcome, log, reposFile0, langsFile0,
           prev >>

\* line 52: the date string of the run
today_str == "today"

\* entries of log
PageEv(p, ok)  == [ev |-> "page",  page |-> p, repo |-> "", ok |-> ok]
FetchEv(n, ok) == [ev |-> "fetch", page |-> 0, repo |-> n, ok |-> ok]
HitEv(n)       == [ev |-> "hit",   page |-> 0, repo |-> n, ok |-> TRUE]
WriteReposEv   == [ev |-> "write_repos", page |-> 0, repo |-> "", ok |-> TRUE]
WriteLangsEv   == [ev |-> "write_langs", page |-> 0, repo |-> "", ok |-> TRUE]

\* the in-memory cache the run starts from (line 83)
FreshCache(d) == [date |-> d, has_languages |-> TRUE, languages |-> NoMaps]

\* prev when no run went through its aggregation earlier on the same day
NoPrev == [valid |-> FALSE, with_forks |-> FALSE, totals |-> << >>,
           resolved |-> {}]

\* repositories whose map the run got from the cache or from the remote
Resolved(l) ==
    { l[i].repo : i \in { j \in 1..Len(l) :
          l[j].ev = "hit" \/ (l[j].ev = "fetch" /\ l[j].ok) } }
\* the run went through the whole aggregation loop
Aggregated(o) == o \in {"no_data", "report", "ZeroDivisionError"}

Init ==
    /\ remote_repos \in RemoteLists
    /\ remote_langs \in [{ remote_repos[i].full_name : i \in 1..Len(remote_repos) }
                            -> RemoteMaps]
    /\ reposFile \in InitReposFiles
    /\ langsFile \in InitLangsFiles
    /\ pc = "idle"
    /\ top_n = 0
    /\ with_forks = FALSE
    /\ repos = << >>
    /\ page = 0
    /\ languages_cache = FreshCache("other")
    /\ total_language_bytes = << >>
    /\ cache_updated = FALSE
    /\ idx = 0
    /\ total_bytes = 0
    /\ sorted_languages = << >>
    /\ table = << >>
    /\ outcome = "none"
    /\ log = << >>
    /\ reposFile0 = reposFile
    /\ langsFile0 = langsFile
    /\ prev = NoPrev

\* a slip: the date of the snapshot is not compared
LoadReposCache_AnyDate(f, d) ==
    [raise |-> f.kind = "nonobject",
     repos |-> IF f.kind = "object" /\ f.has_payload THEN f.repos ELSE << >>]

\* a slip: the snapshot is never taken over
LoadReposCache_NeverUsed(f, d) ==
    [raise |-> f.kind = "nonobject", repos |-> << >>]

\* ---- Step 1 (lines 51-64): the repository list the cache file yields ----
\* "raise" is the AttributeError of cache_data.get on a value that is no dict
LoadReposCache(f, d) ==
    CASE f.kind = "absent"    -> [raise |-> FALSE, repos |-> << >>]
      [] f.kind = "truncated" -> [raise |-> FALSE, repos |-> << >>]
      [] f.kind = "nonobject" -> [raise |-> TRUE,  repos |-> << >>]
      [] f.kind = "object"    ->
           IF f.date = d /\ f.has_payload
           THEN [raise |-> FALSE, repos |-> f.repos]
           ELSE [raise |-> FALSE, repos |-> << >>]

\* a slip: the languages file is never taken over
LoadLanguagesCacheFile_Ignored(f, d) ==
    [raise |-> f.kind = "nonobject", cache |-> FreshCache(d)]

\* ---- Step 3 (lines 83-92): the in-memory cache the cache file yields ----
LoadLanguagesCacheFile(f, d) ==
    CASE f.kind = "absent"    -> [raise |-> FALSE, cache |-> FreshCache(d)]
      [] f.kind = "truncated" -> [raise |-> FALSE, cache |-> FreshCache(d)]
      [] f.kind = "nonobject" -> [raise |-> TRUE,  cache |-> FreshCache(d)]
      [] f.kind = "object"    ->
           IF f.date = d
           THEN [raise |-> FALSE,
                 cache |-> [date |-> f.date, has_languages |-> f.has_payload,
                            languages |-> f.languages]]
           ELSE [raise |-> FALSE, cache |-> FreshCache(d)]

\* what a starting run remembers of the run before it
Summary ==
    IF Aggregated(outcome)
    THEN [valid |-> TRUE, with_forks |-> with_forks,
          totals |-> total_language_bytes, resolved |-> Resolved(log)]
    ELSE NoPrev

\* locals of a run that has not got further than its first lines
ResetLocals ==
    /\ languages_cache' = FreshCache("other")
    /\ total_language_bytes' = << >>
    /\ cache_updated' = FALSE
    /\ idx' = 0
    /\ total_bytes' = 0
    /\ sorted_languages' = << >>
    /\ table' = << >>
    /\ log' = << >>
    /\ reposFile0' = reposFile
    /\ langsFile0' = langsFile

\* lines 46-64 when the repositories file loads or is handled as corrupted
StartRun ==
    /\ pc = "idle"
    /\ ~LoadReposCache(reposFile, today_str).raise
    /\ \E wf \in BOOLEAN : with_forks' = wf
    /\ top_n' = 0
    /\ repos' = LoadReposCache(reposFile, today_str).repos
    /\ page' = IF repos' = << >> THEN 1 ELSE 0
    /\ ResetLocals
    /\ prev' = Summary
    /\ outcome' = "running"
    /\ pc' = IF repos' = << >> THEN "step2" ELSE "step3"
    /\ UNCHANGED << env_vars, reposFile, langsFile >>

\* lines 46-59 when the repositories file holds a value that is no dict:
\* the AttributeError is not among the caught exceptions
StartRunRaises ==
    /\ pc = "idle"
    /\ LoadReposCache(reposFile, today_str).raise
    /\ \E wf \in BOOLEAN : with_forks' = wf
    /\ top_n' = 0
    /\ repos' = << >>
    /\ page' = 0
    /\ ResetLocals
    /\ prev' = Summary
    /\ outcome' = "AttributeError"
    /\ pc' = "idle"
    /\ UNCHANGED << env_vars, reposFile, langsFile >>

\* a slip: the page number grows by two
FetchReposPage_SkipsPage ==
    /\ pc = "step2"
    /\ RemotePage(remote_repos, page) # << >>
    /\ repos' = repos \o RemotePage(remote_repos, page)
    /\ page' = page + 2
    /\ log' = Append(log, PageEv(page, TRUE))
    /\ UNCHANGED << env_vars, reposFile, langsFile, pc, top_n, with_forks,
                    languages_cache, total_language_bytes,
                    cache_updated, idx, total_bytes, sorted_languages, table,
                    outcome, reposFile0, langsFile0, prev >>

\* lines 68-77: one page request that answers with repositories
FetchReposPage ==
    /\ pc = "step2"
    /\ RemotePage(remote_repos, page) # << >>
    /\ repos' = repos \o RemotePage(remote_repos, page)
    /\ page' = page + 1
    /\ log' = Append(log, PageEv(page, TRUE))
    /\ UNCHANGED << env_vars, reposFile, langsFile, pc, top_n, with_forks,
                    languages_cache, total_language_bytes,
                    cache_updated, idx, total_bytes, sorted_languages, table,
                    outcome, reposFile0, langsFile0, prev >>

\* lines 68-80: the page request that answers with no repository ends the
\* loop, and the list is saved under today's date
FetchLastReposPage ==
    /\ pc = "step2"
    /\ RemotePage(remote_repos, page) = << >>
    /\ log' = log \o << PageEv(page, TRUE), WriteReposEv >>
    /\ reposFile' = ReposSnapshot(today_str, repos)
    /\ pc' = "step3"
    /\ UNCHANGED << env_vars, langsFile, top_n, with_forks, repos,
                    page, languages_cache, total_language_bytes, cache_updated, idx,
                    total_bytes, sorted_languages, table, outcome, reposFile0,
                    langsFile0, prev >>

\* a slip: the failure ends the listing, and the pages got so far are saved
\* and used
FetchReposPageFails_KeepsPartial ==
    /\ pc = "step2"
    /\ log' = log \o << PageEv(page, FALSE), WriteReposEv >>
    /\ reposFile' = ReposSnapshot(today_str, repos)
    /\ pc' = "step3"
    /\ UNCHANGED << env_vars, langsFile, top_n, with_forks, repos,
                    page, languages_cache, total_language_bytes, cache_updated, idx,
                    total_bytes, sorted_languages, table, outcome, reposFile0,
                    langsFile0, prev >>

\* lines 72-73: a page request that answers with a non-success status;
\* raise_for_status raises HTTPError, which nothing catches
FetchReposPageFails ==
    /\ pc = "step2"
    /\ log' = Append(log, PageEv(page, FALSE))
    /\ outcome' = "HTTPError"
    /\ pc' = "idle"
    /\ UNCHANGED << env_vars, reposFile, langsFile, top_n, with_forks,
                    repos, page, languages_cache, total_language_bytes, cache_updated,
                    idx, total_bytes, sorted_languages, table, reposFile0,
                    langsFile0, prev >>

\* lines 83-98 when the languages file loads or is handled as corrupted
LoadLanguagesCache ==
    /\ pc = "step3"
    /\ ~LoadLanguagesCacheFile(langsFile, today_str).raise
    /\ languages_cache' = LoadLanguagesCacheFile(langsFile, today_str).cache
    /\ idx' = 1
    /\ pc' = "step4"
    /\ UNCHANGED << env_vars, reposFile, langsFile, top_n, with_forks,
                    repos, page, total_language_bytes, cache_updated,
                    total_bytes, sorted_languages, table, outcome, log,
                    reposFile0, langsFile0, prev >>

\* lines 83-88 when the languages file holds a value that is no dict
LoadLanguagesCacheRaises ==
    /\ pc = "step3"
    /\ LoadLanguagesCacheFile(langsFile, today_str).raise
    /\ outcome' = "AttributeError"
    /\ pc' = "idle"
    /\ UNCHANGED << env_vars, reposFile, langsFile, top_n, with_forks,
                    repos, page, languages_cache, total_language_bytes,
                    cache_updated, idx, total_bytes, sorted_languages, table,
                    log, reposFile0, langsFile0, prev >>

\* ---- Step 4 (lines 100-127): one turn of "for repo in repos" ----
InLoop == pc = "step4" /\ idx <= Len(repos)
loop_frame == << env_vars, reposFile, langsFile, pc, top_n, with_forks,
                 repos, page, total_bytes, sorted_languages, table,
                 outcome, reposFile0, langsFile0, prev >>

\* lines 101-102
SkipFork ==
    /\ InLoop
    /\ ~Qualifies(repos[idx], with_forks)
    /\ idx' = idx + 1
    /\ UNCHANGED << loop_frame, languages_cache, total_language_bytes,
                    cache_updated, log >>

\* line 107 on a loaded cache that has no "languages" key: the KeyError is
\* raised outside every try block
MissingLanguagesKey ==
    /\ InLoop
    /\ Qualifies(repos[idx], with_forks)
    /\ ~languages_cache.has_languages
    /\ outcome' = "KeyError"
    /\ pc' = "idle"
    /\ UNCHANGED << env_vars, reposFile, langsFile, top_n, with_forks,
                    repos, page, languages_cache, total_language_bytes,
                    cache_updated, idx, total_bytes, sorted_languages, table,
                    log, reposFile0, langsFile0, prev >>

\* a slip: a map taken from the cache is not added to the totals
UseCachedLanguages_NotCounted ==
    /\ InLoop
    /\ Qualifies(repos[idx], with_forks)
    /\ languages_cache.has_languages
    /\ repos[idx].full_name \in DOMAIN languages_cache.languages
    /\ log' = Append(log, HitEv(repos[idx].full_name))
    /\ idx' = idx + 1
    /\ UNCHANGED << loop_frame, languages_cache, cache_updated,
                    total_language_bytes >>

\* lines 107-110 and 127
UseCachedLanguages ==
    /\ InLoop
    /\ Qualifies(repos[idx], with_forks)
    /\ languages_cache.has_languages
    /\ repos[idx].full_name \in DOMAIN languages_cache.languages
    /\ total_language_bytes' =
          CounterUpdate(total_language_bytes,
                        languages_cache.languages[repos[idx].full_name])
    /\ log' = Append(log, HitEv(repos[idx].full_name))
    /\ idx' = idx + 1
    /\ UNCHANGED << loop_frame, languages_cache, cache_updated >>

\* a slip: the new entry replaces the dict
Store_Replaces(languages, n, data) == [x \in {n} |-> data]

\* the languages dict with one more key
Store(languages, n, data) ==
    [x \in DOMAIN languages \cup {n} |-> IF x = n THEN data ELSE languages[x]]

\* lines 111-122 and 127: the request answers with the language map
FetchLanguages ==
    /\ InLoop
    /\ Qualifies(repos[idx], with_forks)
    /\ languages_cache.has_languages
    /\ repos[idx].full_name \notin DOMAIN languages_cache.languages
    /\ repos[idx].full_name \in DOMAIN remote_langs
    /\ LET n == repos[idx].full_name
           languages_data == remote_langs[n]
       IN  /\ languages_cache' =
                 [languages_cache EXCEPT
                     !.languages = Store(languages_cache.languages, n, languages_data)]
           /\ total_language_bytes' =
                 CounterUpdate(total_language_bytes, languages_data)
           /\ log' = Append(log, FetchEv(n, TRUE))
    /\ cache_updated' = TRUE
    /\ idx' = idx + 1
    /\ UNCHANGED loop_frame

\* a slip: the HTTPError of a language request is not caught
FetchLanguagesFails_Aborts ==
    /\ pc = "step4" /\ idx <= Len(repos)
    /\ with_forks \/ ~repos[idx].fork
    /\ languages_cache.has_languages
    /\ repos[idx].full_name \notin DOMAIN languages_cache.languages
    /\ log' = Append(log, FetchEv(repos[idx].full_name, FALSE))
    /\ outcome' = "HTTPError"
    /\ pc' = "idle"
    /\ UNCHANGED << env_vars, reposFile, langsFile, top_n, with_forks, repos,
                    page, languages_cache, total_language_bytes, cache_updated,
                    idx, total_bytes, sorted_languages, table, reposFile0,
                    langsFile0, prev >>

\* a slip: the empty map of a failed request is stored like a fetched one
FetchLanguagesFails_CachesEmpty ==
    /\ InLoop
    /\ Qualifies(repos[idx], with_forks)
    /\ languages_cache.has_languages
    /\ repos[idx].full_name \notin DOMAIN languages_cache.languages
    /\ languages_cache' =
          [languages_cache EXCEPT
              !.languages = Store(languages_cache.languages,
                                  repos[idx].full_name, << >>)]
    /\ cache_updated' = TRUE
    /\ total_language_bytes' = CounterUpdate(total_language_bytes, << >>)
    /\ log' = Append(log, FetchEv(repos[idx].full_name, FALSE))
    /\ idx' = idx + 1
    /\ UNCHANGED loop_frame

\* lines 111-117 and 123-127: the request answers with a non-success status
FetchLanguagesFails ==
    /\ InLoop
    /\ Qualifies(repos[idx], with_forks)
    /\ languages_cache.has_languages
    /\ repos[idx].full_name \notin DOMAIN languages_cache.languages
    /\ total_language_bytes' = CounterUpdate(total_language_bytes, << >>)
    /\ log' = Append(log, FetchEv(repos[idx].full_name, FALSE))
    /\ idx' = idx + 1
    /\ UNCHANGED << loop_frame, languages_cache, cache_updated >>

\* a slip: the languages file is written at the end of every loop
SaveLanguagesCache_Always ==
    /\ pc = "step4"
    /\ idx > Len(repos)
    /\ langsFile' = LangsSnapshot(languages_cache.date, languages_cache.languages)
    /\ log' = Append(log, WriteLangsEv)
    /\ pc' = "step5"
    /\ UNCHANGED << env_vars, reposFile, top_n, with_forks, repos,
                    page, languages_cache, total_language_bytes, cache_updated,
                    idx, total_bytes, sorted_languages, table, outcome,
                    reposFile0, langsFile0, prev >>

\* lines 129-133, after the loop
SaveLanguagesCache ==
    /\ pc = "step4"
    /\ idx > Len(repos)
    /\ IF cache_updated
       THEN /\ langsFile' = LangsSnapshot(languages_cache.date,
                                          languages_cache.languages)
            /\ log' = Append(log, WriteLangsEv)
       ELSE UNCHANGED << langsFile, log >>
    /\ pc' = "step5"
    /\ UNCHANGED << env_vars, reposFile, top_n, with_forks, repos,
                    page, languages_cache, total_language_bytes, cache_updated,
                    idx, total_bytes, sorted_languages, table, outcome,
                    reposFile0, langsFile0, prev >>

\* ---- Step 5 (lines 135-152) ----
report_frame == << env_vars, reposFile, langsFile, with_forks,
                   repos, page, languages_cache, total_language_bytes,
                   cache_updated, idx, log, reposFile0, langsFile0, prev >>

\* a slip: empty totals are reported like any others
ReportNoData_BuildsTable ==
    /\ pc = "step5"
    /\ total_language_bytes = << >>
    /\ table' = build_language_table(repos, languages_cache.languages, << >>,
                                     with_forks)
    /\ outcome' = "report"
    /\ pc' = "idle"
    /\ UNCHANGED << report_frame, top_n, total_bytes, sorted_languages >>

\* lines 135-137
ReportNoData ==
    /\ pc = "step5"
    /\ total_language_bytes = << >>
    /\ outcome' = "no_data"
    /\ pc' = "idle"
    /\ UNCHANGED << report_frame, top_n, total_bytes, sorted_languages, table >>

\* a slip: the denominator is the sum over the displayed languages
Report_DisplayedDenominator ==
    /\ pc = "step5"
    /\ total_language_bytes # << >>
    /\ top_n' \in TopNs
    /\ sorted_languages' = MostCommon(total_language_bytes, top_n')
    /\ total_bytes' = SumBytes(sorted_languages')
    /\ ~(sorted_languages' # << >> /\ total_bytes' = 0)
    /\ table' = build_language_table(
                    repos, languages_cache.languages,
                    [i \in 1..Len(sorted_languages') |-> sorted_languages'[i].lang],
                    with_forks)
    /\ outcome' = "report"
    /\ pc' = "idle"
    /\ UNCHANGED << env_vars, reposFile, langsFile, with_forks, repos, page,
                    languages_cache, total_language_bytes, cache_updated, idx,
                    log, reposFile0, langsFile0, prev >>

\* lines 140-152 when every percentage can be computed
Report ==
    /\ pc = "step5"
    /\ total_language_bytes # << >>
    /\ top_n' \in TopNs
    /\ total_bytes' = SumBytes(total_language_bytes)
    /\ sorted_languages' = MostCommon(total_language_bytes, top_n')
    /\ ~(sorted_languages' # << >> /\ total_bytes' = 0)
    /\ table' = build_language_table(
                    repos, languages_cache.languages,
                    [i \in 1..Len(sorted_languages') |-> sorted_languages'[i].lang],
                    with_forks)
    /\ outcome' = "report"
    /\ pc' = "idle"
    /\ UNCHANGED report_frame

\* lines 140-145 when the totals sum to 0: the first percentage divides by 0
ReportDividesByZero ==
    /\ pc = "step5"
    /\ total_language_bytes # << >>
    /\ top_n' \in TopNs
    /\ total_bytes' = SumBytes(total_language_bytes)
    /\ sorted_languages' = MostCommon(total_language_bytes, top_n')
    /\ sorted_languages' # << >> /\ total_bytes' = 0
    /\ outcome' = "ZeroDivisionError"
    /\ pc' = "idle"
    /\ UNCHANGED << report_frame, table >>

\* ---- the environment ----
\* a file as it reads once midnight has passed: its date is no longer today's
Aged(f) == IF f.kind = "object" THEN [f EXCEPT !.date = "other"] ELSE f

\* midnight passes between two runs (a run reads the date once, line 52);
\* nothing of the runs of the day before is left but the two files
NextDay ==
    /\ pc = "idle"
    /\ reposFile' = Aged(reposFile)
    /\ langsFile' = Aged(langsFile)
    /\ top_n' = 0
    /\ with_forks' = FALSE
    /\ repos' = << >>
    /\ page' = 0
    /\ languages_cache' = FreshCache("other")
    /\ total_language_bytes' = << >>
    /\ cache_updated' = FALSE
    /\ idx' = 0
    /\ total_bytes' = 0
    /\ sorted_languages' = << >>
    /\ table' = << >>
    /\ log' = << >>
    /\ reposFile0' = reposFile'
    /\ langsFile0' = langsFile'
    /\ prev' = NoPrev
    /\ outcome' = "none"
    /\ UNCHANGED << remote_repos, remote_langs, pc >>

Next ==
    \/ StartRun
    \/ StartRunRaises
    \/ FetchReposPage
    \/ FetchLastReposPage
    \/ FetchReposPageFails
    \/ LoadLanguagesCache
    \/ LoadLanguagesCacheRaises
    \/ SkipFork
    \/ MissingLanguagesKey
    \/ UseCachedLanguages
    \/ FetchLanguages
    \/ FetchLanguagesFails
    \/ SaveLanguagesCache
    \/ ReportNoData
    \/ Report
    \/ ReportDividesByZero
    \/ NextDay

Spec == Init /\ [][Next]_vars

\* ---- ranking specification: one repository, any language map, no failure ----
InitRank ==
    /\ remote_repos = << Repo("a") >>
    /\ remote_langs \in [{"a"} -> RankMaps]
    /\ reposFile = ReposAbsent
    /\ langsFile = LangsAbsent
    /\ pc = "idle"
    /\ top_n = 0
    /\ with_forks = FALSE
    /\ repos = << >>
    /\ page = 0
    /\ languages_cache = FreshCache("other")
    /\ total_language_bytes = << >>
    /\ cache_updated = FALSE
    /\ idx = 0
    /\ total_bytes = 0
    /\ sorted_languages = << >>
    /\ table = << >>
    /\ outcome = "none"
    /\ log = << >>
    /\ reposFile0 = reposFile
    /\ langsFile0 = langsFile
    /\ prev = NoPrev

NextRank ==
    \/ StartRun
    \/ FetchReposPage
    \/ FetchLastReposPage
    \/ LoadLanguagesCache
    \/ UseCachedLanguages
    \/ FetchLanguages
    \/ SaveLanguagesCache
    \/ ReportNoData
    \/ Report
    \/ ReportDividesByZero

SpecRank == InitRank /\ [][NextRank]_vars

\* ---- tie specification: two repositories, the first with any language
\* map, no failure ----
InitTies ==
    /\ remote_repos = << Repo("a"), Repo("c") >>
    /\ remote_langs \in { [n \in {"a", "c"} |-> IF n = "a" THEN ma ELSE mc] :
                            ma \in RankMaps, mc \in RemoteMaps }
    /\ reposFile = ReposAbsent
    /\ langsFile = LangsAbsent
    /\ pc = "idle"
    /\ top_n = 0
    /\ with_forks = FALSE
    /\ repos = << >>
    /\ page = 0
    /\ languages_cache = FreshCache("other")
    /\ total_language_bytes = << >>
    /\ cache_updated = FALSE
    /\ idx = 0
    /\ total_bytes = 0
    /\ sorted_languages = << >>
    /\ table = << >>
    /\ outcome = "none"
    /\ log = << >>
    /\ reposFile0 = reposFile
    /\ langsFile0 = langsFile
    /\ prev = NoPrev

SpecTies == InitTies /\ [][NextRank]_vars

TypeOK ==
    /\ top_n \in TopNs
    /\ pc \in {"idle", "step2", "step3", "step4", "step5"}
    /\ outcome \in {"none", "running", "AttributeError",
                    "HTTPError", "KeyError", "no_data", "report",
                    "ZeroDivisionError"}
    /\ (pc = "idle") = (outcome # "running")

\* ---- vocabulary of the properties ----
Events(kind) == { i \in 1..Len(log) : log[i].ev = kind }
FetchedOk    == { log[i].repo : i \in { j \in Events("fetch") : log[j].ok } }
FetchFailed  == { log[i].repo : i \in { j \in Events("fetch") : ~log[j].ok } }
Requested    == { log[i].repo : i \in Events("fetch") }
Hit          == { log[i].repo : i \in Events("hit") }
\* the run has left the aggregation loop
LoopDone == pc = "step5" \/ Aggregated(outcome)
\* the run is in its loop or has left it
InStep4 == pc = "step4" \/ LoopDone
\* positions in repos that pass the fork filter
Included == { i \in 1..Len(repos) : with_forks \/ ~repos[i].fork }
\* the map the run has for repository n, none read as the empty map
UsedMap(n) ==
    IF n \in DOMAIN languages_cache.languages
    THEN languages_cache.languages[n] ELSE << >>
Max(x, y) == IF x >= y THEN x ELSE y
\* the run has ranked its totals
Ranked == outcome \in {"report", "ZeroDivisionError"}
AllLangs == RankLangs \cup {"Cobol"}

RECURSIVE SumOver(_, _)
\* sum of f[x] over the finite set S
SumOver(S, f) ==
    IF S = {} THEN 0
    ELSE LET x == CHOOSE y \in S : TRUE IN f[x] + SumOver(S \ {x}, f)

\* bytes of language l in the remote map of each repository of the remote
\* list that passes the fork filter, added up
RemoteTotal(l) ==
    LET q == { i \in 1..Len(remote_repos) : with_forks \/ ~remote_repos[i].fork }
    IN  SumOver(q, [i \in q |-> Get(remote_langs[remote_repos[i].full_name], l)])

ValidToday(f) == f.kind = "object" /\ f.date = "today" /\ f.has_payload
Stale(f)      == f.kind = "object" /\ f.date = "other"
Corrupted(f)  == \/ f.kind \in {"truncated", "nonobject"}
                 \/ (f.kind = "object" /\ f.date = "today" /\ ~f.has_payload)

\* C1 (as stated): a run that follows, on the same day and with the same
\* with_forks, a run that went through its aggregation has the same totals
\* as that run and requests no language map of a repository that run resolved.
C1_SameTotalsAlways ==
    (Aggregated(outcome) /\ prev.valid /\ prev.with_forks = with_forks)
        => /\ total_language_bytes = prev.totals
           /\ Requested \cap prev.resolved = {}

\* C1 (amended): such a run requests no language map of a repository the
\* earlier run resolved, and has the same totals as the earlier run
\* unless one of its own language requests succeeds (which can only be for
\* a repository whose request failed in the earlier run).
C1_RerunSameDay ==
    (outcome # "none" /\ prev.valid /\ prev.with_forks = with_forks)
        => /\ Requested \cap prev.resolved = {}
           /\ (Aggregated(outcome) /\ FetchedOk = {})
                 => total_language_bytes = prev.totals

C1_Witness ==
    /\ Aggregated(outcome) /\ prev.valid /\ prev.with_forks = with_forks
    /\ Cardinality(prev.resolved) = 2
    /\ FetchedOk = {}
    /\ Len(total_language_bytes) = 2

\* C2: when no language request of the run fails, the totals hold for each
\* language the sum of its bytes over the remote maps of the qualifying
\* repositories, whatever the two cache files were at the start of the run.
C2_TotalsAreRemoteSums ==
    (LoopDone /\ FetchFailed = {})
        => /\ \A l \in AllLangs : Get(total_language_bytes, l) = RemoteTotal(l)
           /\ Langs(total_language_bytes) =
                 UNION { Langs(remote_langs[remote_repos[i].full_name]) :
                           i \in { j \in 1..Len(remote_repos) :
                                     with_forks \/ ~remote_repos[j].fork } }

C2_Witness ==
    /\ LoopDone /\ FetchFailed = {}
    /\ ValidToday(langsFile0) /\ Hit # {} /\ FetchedOk # {}
    /\ Get(total_language_bytes, "Go") = 4

\* C3 (as stated): a run that finds one of the two cache files corrupted
\* (truncated, not an object, or dated today without its payload) ends
\* without an exception of the cache handling reaching the caller.
C3_CorruptionNeverEscapes ==
    (Corrupted(reposFile0) \/ Corrupted(langsFile0))
        => outcome \notin {"AttributeError", "KeyError"}

\* C4: the payload of a snapshot is used exactly when its date is today's.
\* With a repositories snapshot of another date the list is requested from
\* the remote, page 1 first; with a languages snapshot of another date no
\* repository is served from the cache and the in-memory cache holds
\* fetched maps only.  With today's date the stored list (when not empty) is
\* the list of the run, and every stored map of a qualifying repository is
\* used without a request.
C4_PayloadUsedIffDatedToday ==
    /\ (Stale(reposFile0) /\ outcome # "none" /\ (pc # "step2" \/ log # << >>))
          => /\ log # << >>
             /\ log[1] = PageEv(1, outcome # "HTTPError" \/ Len(log) > 1)
    /\ (Stale(reposFile0) /\ (pc \in {"step3", "step4"} \/ LoopDone))
          => repos = remote_repos /\ Events("write_repos") # {}
    /\ (Stale(langsFile0) /\ InStep4)
          => /\ Hit = {}
             /\ DOMAIN languages_cache.languages = FetchedOk
             /\ \A i \in Included : i < idx => repos[i].full_name \in Requested
    /\ (ValidToday(reposFile0) /\ reposFile0.repos # << >> /\ outcome # "none")
          => repos = reposFile0.repos /\ Events("page") = {}
    /\ (ValidToday(langsFile0) /\ InStep4)
          => \A i \in Included :
                (i < idx /\ repos[i].full_name \in DOMAIN langsFile0.languages)
                   => /\ repos[i].full_name \in Hit \ Requested
                      /\ UsedMap(repos[i].full_name) =
                            langsFile0.languages[repos[i].full_name]

C4_Witness ==
    /\ Stale(reposFile0) /\ reposFile0.repos = << OldRepo >>
    /\ Stale(langsFile0) /\ langsFile0.has_payload
    /\ LoopDone
    /\ Cardinality(FetchedOk) = 2

\* C5: a repositories snapshot dated today with a non-empty list is the list
\* of the run as it stands, with no page request and no write of the
\* repositories file; one with an empty list makes the run request page 1.
C5_TodaySnapshotVerbatim ==
    /\ (ValidToday(reposFile0) /\ reposFile0.repos # << >> /\ outcome # "none")
          => /\ repos = reposFile0.repos
             /\ Events("page") = {}
             /\ Events("write_repos") = {}
             /\ reposFile = reposFile0
    /\ (ValidToday(reposFile0) /\ reposFile0.repos = << >> /\ outcome # "none")
          => \/ pc = "step2" /\ page = 1 /\ log = << >>
             \/ log # << >> /\ log[1].ev = "page" /\ log[1].page = 1

C5_Witness ==
    /\ ValidToday(reposFile0) /\ Len(reposFile0.repos) = 2
    /\ outcome = "report"

\* C6: a fork is left out of the totals, of the requests and of the table
\* when with_forks is false, and is in all of them when it is true; a
\* repository that is no fork is always in.
C6_ForkFilter ==
    /\ LoopDone =>
          LET inc  == Included
              maps == [i \in inc |-> UsedMap(repos[i].full_name)]
              seen == Requested \cup Hit
          IN  /\ \A l \in AllLangs :
                    Get(total_language_bytes, l) =
                       SumOver(inc, [i \in inc |-> Get(maps[i], l)])
              /\ \A i \in 1..Len(repos) :
                    (i \in inc) = (repos[i].full_name \in seen)
    /\ outcome = "report" =>
          [i \in 1..Len(table) |-> table[i].name] =
             LET q == SelectSeq(repos, LAMBDA r : with_forks \/ ~r.fork)
             IN  [i \in 1..Len(q) |-> q[i].full_name]

C6_Witness ==
    /\ outcome = "report" /\ ~with_forks
    /\ Len(table) = 1
    /\ \E i \in 1..Len(repos) :
          /\ repos[i].fork
          /\ UsedMap(repos[i].full_name) # << >>

\* C7: a page request that fails ends the run with the HTTPError: it is the
\* last request of the run and is made once, both cache files are as the
\* run found them, no language map was asked for and nothing was ranked.
C7_ListingFailureAborts ==
    /\ \A i \in Events("page") : ~log[i].ok => outcome = "HTTPError"
    /\ outcome = "HTTPError" =>
          /\ pc = "idle"
          /\ log # << >>
          /\ log[Len(log)] = PageEv(Len(log), FALSE)
          /\ \A i \in 1..(Len(log) - 1) : log[i] = PageEv(i, TRUE)
          /\ reposFile = reposFile0
          /\ langsFile = langsFile0
          /\ total_language_bytes = << >>
          /\ sorted_languages = << >>
          /\ table = << >>

C7_Witness ==
    /\ outcome = "HTTPError"
    /\ Len(log) = 2
    /\ repos # << >>
    /\ reposFile.kind = "truncated"

\* C8: a language request that fails does not end the run: the run goes on
\* to every later qualifying repository, and the totals are the sums over
\* the repositories whose map it got.
C8_FetchFailureNonFatal ==
    /\ FetchFailed # {} =>
          outcome \in {"running", "no_data", "report", "ZeroDivisionError"}
    /\ LET seen == Requested \cup Hit
       IN  \A i \in Included : i < idx => repos[i].full_name \in seen
    /\ LoopDone =>
          LET resolved == Resolved(log)
              got  == { i \in Included : repos[i].full_name \in resolved }
              maps == [i \in got |-> UsedMap(repos[i].full_name)]
          IN  /\ idx = Len(repos) + 1
              /\ \A l \in AllLangs :
                    Get(total_language_bytes, l) =
                       SumOver(got, [i \in got |-> Get(maps[i], l)])

C8_Witness ==
    /\ LoopDone
    /\ Len(log) >= 2
    /\ \E i, j \in Events("fetch") : i < j /\ ~log[i].ok /\ log[j].ok
    /\ Get(total_language_bytes, "Go") = 2

\* the ranking is sorted, and its entries are the largest of the totals
RankingIsTop ==
    /\ \A i \in 1..Len(sorted_languages) :
          \E k \in 1..Len(total_language_bytes) :
             sorted_languages[i] = total_language_bytes[k]
    /\ \A i, j \in 1..Len(sorted_languages) :
          i < j => /\ sorted_languages[i].bytes >= sorted_languages[j].bytes
                   /\ sorted_languages[i].lang # sorted_languages[j].lang
    /\ \A k \in 1..Len(total_language_bytes) :
          (\A i \in 1..Len(sorted_languages) :
              sorted_languages[i].lang # total_language_bytes[k].lang)
             => \A i \in 1..Len(sorted_languages) :
                   total_language_bytes[k].bytes <= sorted_languages[i].bytes

\* C9 (as stated): for every top_n the ranking has at most top_n entries,
\* exactly min(top_n, number of languages) for top_n >= 0, sorted by
\* non-increasing bytes, and no language left out has more bytes than one
\* in it.
C9_AtMostTopN ==
    Ranked =>
       /\ Len(sorted_languages) <= top_n
       /\ top_n >= 0 =>
             Len(sorted_languages) = Min(top_n, Cardinality(Langs(total_language_bytes)))
       /\ RankingIsTop

\* C9 (amended): the ranking has at most max(top_n, 0) entries: exactly
\* min(top_n, number of languages) for top_n >= 0 and none for top_n < 0;
\* it is sorted by non-increasing bytes, and no language left out has more
\* bytes than one in it.
C9_Ranking ==
    Ranked =>
       /\ Len(sorted_languages) <= Max(top_n, 0)
       /\ top_n >= 0 =>
             Len(sorted_languages) = Min(top_n, Cardinality(Langs(total_language_bytes)))
       /\ top_n < 0 => sorted_languages = << >>
       /\ RankingIsTop

C9_Witness ==
    /\ Ranked
    /\ top_n = 2
    /\ Len(total_language_bytes) = 3
    /\ Len(sorted_languages) = 2
    /\ total_language_bytes[1].bytes < total_language_bytes[2].bytes
    /\ total_language_bytes[2].bytes < total_language_bytes[3].bytes

\* C10: the denominator of the percentages is the sum of the bytes of all
\* languages of the totals, and the bytes of the displayed languages sum to
\* at most the denominator, for every top_n.
C10_Denominator ==
    Ranked =>
       /\ total_bytes =
             SumOver(Langs(total_language_bytes),
                     [l \in Langs(total_language_bytes) |->
                         Get(total_language_bytes, l)])
       /\ SumOver(1..Len(sorted_languages),
                  [i \in 1..Len(sorted_languages) |-> sorted_languages[i].bytes])
             <= total_bytes

C10_Witness ==
    /\ outcome = "report"
    /\ Len(sorted_languages) = 2
    /\ Len(total_language_bytes) = 3
    /\ SumBytes(sorted_languages) < total_bytes

\* C11: a run that leaves the aggregation loop with empty totals ends with
\* the "no data" outcome: nothing is ranked and no table is built; and only
\* such a run ends that way.
C11_EmptyTotalsNoData ==
    /\ (Aggregated(outcome) /\ total_language_bytes = << >>)
          => /\ outcome = "no_data"
             /\ sorted_languages = << >>
             /\ table = << >>
             /\ total_bytes = 0
    /\ outcome = "no_data" => total_language_bytes = << >>
    /\ outcome = "report" => total_language_bytes # << >> /\ table # << >>

C11_Witness ==
    /\ outcome = "no_data"
    /\ FetchedOk # {}
    /\ FetchFailed # {}
    /\ Included # {}

RECURSIVE ConcatPages(_, _)
\* pages 1..k of the remote listing, one after the other
ConcatPages(list, k) ==
    IF k = 0 THEN << >> ELSE ConcatPages(list, k - 1) \o RemotePage(list, k)

\* C12: on a repositories cache miss the page requests are those for pages
\* 1, 2, 3, ... in that order, none skipped or repeated; the loop stops at the
\* first page without repositories; the list is the pages before it, one
\* after the other; and the list is saved under today's date before the first
\* language map is looked up.
C12_PagedListing ==
    LET pages  == Events("page")
        k      == Cardinality(pages)
        writes == Events("write_repos")
    IN  /\ pages = 1..k
        /\ \A i \in pages :
              /\ log[i].page = i
              /\ i < k => log[i].ok /\ RemotePage(remote_repos, i) # << >>
              /\ log[i].ok =>
                    ((RemotePage(remote_repos, i) = << >>) <=> (i + 1 \in writes))
        /\ pc = "step2" =>
              /\ writes = {}
              /\ page = k + 1
              /\ repos = ConcatPages(remote_repos, k)
        /\ writes # {} =>
              /\ writes = {k + 1}
              /\ repos = ConcatPages(remote_repos, k - 1)
              /\ reposFile = ReposSnapshot(today_str, repos)
              /\ \A i \in 1..Len(log) :
                    log[i].ev \in {"fetch", "hit", "write_langs"} => i > k + 1
        /\ (pages # {} /\ pc # "step2" /\ outcome # "HTTPError") => writes # {}
        /\ pages = {} => writes = {} /\ reposFile = reposFile0

C12_Witness ==
    /\ Cardinality(Events("page")) = 3
    /\ Events("write_repos") # {}
    /\ Len(repos) = 2
    /\ Events("fetch") # {}

\* C13: a run writes the languages file if and only if it fetched at least
\* one language map from the remote; a run whose qualifying repositories were
\* all served from the cache or all failed to fetch leaves the file as it
\* found it.
C13_WriteIffFetched ==
    LET writes  == Events("write_langs")
        fetched == { j \in Events("fetch") : log[j].ok }
    IN  /\ LoopDone => ((writes # {}) <=> (fetched # {}))
        /\ writes # {} =>
              /\ Cardinality(writes) = 1
              /\ LoopDone
              /\ \A j \in Events("fetch") \cup Events("hit"), w \in writes : j < w
        /\ writes = {} => langsFile = langsFile0
        /\ cache_updated <=> (fetched # {})

C13_Witness ==
    /\ Aggregated(outcome)
    /\ Events("write_langs") # {}
    /\ Hit # {}
    /\ langsFile # langsFile0

C13_WitnessUnchanged ==
    /\ Aggregated(outcome)
    /\ Hit # {}
    /\ FetchFailed # {}
    /\ langsFile = langsFile0

\* the entries the run loaded from the languages file
LoadedMaps == IF ValidToday(langsFile0) THEN langsFile0.languages ELSE NoMaps

\* the in-memory snapshot is what the run loaded plus what it fetched
C14_InRun ==
    (InStep4 \/ outcome = "KeyError") =>
        LET held == languages_cache.languages
        IN  /\ DOMAIN held = DOMAIN LoadedMaps \cup FetchedOk
            /\ \A n \in DOMAIN LoadedMaps : held[n] = LoadedMaps[n]
            /\ \A n \in FetchedOk :
                  n \notin DOMAIN LoadedMaps /\ held[n] = remote_langs[n]
            /\ Events("write_langs") # {} =>
                  langsFile = LangsSnapshot(today_str, held)

\* a step of the same day keeps every entry of a valid snapshot, in the file
\* and in memory
C14_Step ==
    /\ (ValidToday(langsFile) /\ ~NextDay) =>
          /\ ValidToday(langsFile')
          /\ \A n \in DOMAIN langsFile.languages :
                /\ n \in DOMAIN langsFile'.languages
                /\ langsFile'.languages[n] = langsFile.languages[n]
    /\ (pc = "step4" /\ pc' \in {"step4", "step5"}) =>
          /\ \A n \in DOMAIN languages_cache.languages :
                /\ n \in DOMAIN languages_cache'.languages
                /\ languages_cache'.languages[n] = languages_cache.languages[n]
          /\ DOMAIN languages_cache'.languages \ DOMAIN languages_cache.languages
                \subseteq (IF Len(log') > Len(log) /\ log'[Len(log')].ev = "fetch"
                                /\ log'[Len(log')].ok
                           THEN {log'[Len(log')].repo} ELSE {})

\* C14: within a run and from run to run on one calendar day the languages
\* snapshot only grows: every entry of a valid snapshot at load is there with
\* the same map after the run, a fetched map is added under the full name of
\* its repository only, and no entry is overwritten or removed.
C14_Accumulates == []C14_InRun /\ [][C14_Step]_vars

C14_Witness ==
    /\ Aggregated(outcome)
    /\ ValidToday(langsFile0)
    /\ DOMAIN langsFile0.languages # {}
    /\ FetchedOk # {}
    /\ Events("write_langs") # {}
    /\ DOMAIN langsFile.languages = DOMAIN langsFile0.languages \cup FetchedOk

RECURSIVE EncounterSeq(_)
\* the entries the loop has met in repos[1..i], in the order it met them
EncounterSeq(i) ==
    IF i = 0 THEN << >>
    ELSE EncounterSeq(i - 1)
         \o (IF i \in Included THEN UsedMap(repos[i].full_name) ELSE << >>)

\* C15: two languages with equal totals are ranked in the order in which the
\* aggregation first met them (repositories in listing order, keys in the
\* order of each map), also when only one of the two is within top_n.
C15_TiesKeepEncounterOrder ==
    Ranked =>
        LET met      == EncounterSeq(Len(repos))
            First(l) == CHOOSE p \in 1..Len(met) :
                           /\ met[p].lang = l
                           /\ \A q \in 1..(p - 1) : met[q].lang # l
            shown    == { sorted_languages[i].lang : i \in 1..Len(sorted_languages) }
            cut      == { l \in Langs(total_language_bytes) : l \notin shown }
        IN  /\ Langs(total_language_bytes) = { met[p].lang : p \in 1..Len(met) }
            /\ \A i, j \in 1..Len(sorted_languages) :
                  (i < j /\ sorted_languages[i].bytes = sorted_languages[j].bytes)
                     => First(sorted_languages[i].lang) < First(sorted_languages[j].lang)
            /\ \A i \in 1..Len(sorted_languages) : \A l \in cut :
                  Get(total_language_bytes, l) = sorted_languages[i].bytes
                     => First(sorted_languages[i].lang) < First(l)

\* a tie across the cut-off, between a language of the first repository and
\* one the second repository brought in
C15_Witness ==
    /\ outcome = "report"
    /\ Len(sorted_languages) = 1
    /\ \E l \in Langs(total_language_bytes) :
          /\ l # sorted_languages[1].lang
          /\ Get(total_language_bytes, l) = sorted_languages[1].bytes
          /\ l \notin Langs(remote_langs["a"])
          /\ l \in Langs(remote_langs["c"])

\* the r-th position of repos that passes the fork filter
IncludedAt(r) == CHOOSE i \in Included : Cardinality({ k \in Included : k <= i }) = r

\* C16: the table has one row per qualifying repository, in listing order,
\* and behind the name one cell per ranked language, in ranking order; the
\* cell shows the count of that language in the map of that repository, and 0
\* when the map lacks the language or the repository has no map.
C16_TableShape ==
    outcome = "report" =>
        /\ Len(table) = Cardinality(Included)
        /\ \A r \in 1..Len(table) :
              LET repo == repos[IncludedAt(r)]
                  m    == UsedMap(repo.full_name)
              IN  /\ table[r].name = repo.full_name
                  /\ Len(table[r].cells) = Len(sorted_languages)
                  /\ \A j \in 1..Len(sorted_languages) :
                        LET l == sorted_languages[j].lang
                        IN  \/ \E p \in 1..Len(m) :
                                  /\ m[p].lang = l
                                  /\ table[r].cells[j] = Str(m[p].bytes)
                            \/ /\ \A p \in 1..Len(m) : m[p].lang # l
                               /\ table[r].cells[j] = << 0 >>

\* two rows and two columns; one repository has no map, the other a map whose
\* key order is not the ranking order
C16_Witness ==
    /\ outcome = "report"
    /\ Len(table) = 2
    /\ Len(sorted_languages) = 2
    /\ FetchFailed # {}
    /\ \E r \in 1..2 : table[r].cells = << << 2 >>, << 1 >> >>
    /\ \E r \in 1..2 : table[r].cells = << << 0 >>, << 0 >> >>

RECURSIVE Val(_)
\* the number a sequence of decimal digits stands for
Val(d) == IF d = << >> THEN 0 ELSE Val(SubSeq(d, 1, Len(d) - 1)) * 10 + d[Len(d)]

\* C17: in a report the cells of every ranked language add up, over the rows
\* of the table, to the total of that language in the ranking; this holds
\* also when language requests failed (the listing names every repository
\* once; a failed repository has 0 in every column and added nothing to the
\* totals).
C17_ColumnsAddUp ==
    outcome = "report" =>
        LET rows == 1..Len(table)
        IN  /\ \A j \in 1..Len(sorted_languages) :
                  SumOver(rows, [r \in rows |-> Val(table[r].cells[j])])
                     = sorted_languages[j].bytes
            /\ \A r \in rows :
                  table[r].name \in FetchFailed =>
                     \A j \in 1..Len(sorted_languages) : table[r].cells[j] = << 0 >>

C17_Witness ==
    /\ outcome = "report"
    /\ FetchFailed # {}
    /\ Hit # {}
    /\ Len(table) = 2
    /\ Len(sorted_languages) = 2
    /\ sorted_languages[1].bytes = 2

\* C18: a repository whose language request failed is in neither the
\* in-memory nor the written snapshot of the day; and a run that follows, on
\* the same day, a run that went through its loop requests the map of every
\* repository it processes that the earlier run had to process and did not
\* resolve, that is, whose request failed there.
C18_FailureNotCached ==
    LET failed == FetchFailed
        asked  == Requested
    IN  /\ \A n \in failed :
              /\ n \notin DOMAIN languages_cache.languages
              /\ ValidToday(langsFile) => n \notin DOMAIN langsFile.languages
        /\ prev.valid =>
              \A i \in Included :
                 (/\ i < idx
                  /\ prev.with_forks \/ ~repos[i].fork
                  /\ repos[i].full_name \notin prev.resolved)
                    => repos[i].full_name \in asked

\* the second run fetches what the first run failed to fetch
C18_Witness ==
    /\ Aggregated(outcome)
    /\ prev.valid
    /\ prev.resolved # {}
    /\ Hit = prev.resolved
    /\ \E n \in FetchedOk : n \notin prev.resolved
    /\ ValidToday(langsFile0)

\* C19 (as stated): a run that gets past the check for empty totals and
\* computes a percentage divides by a sum of all totals that is greater than 0,
\* whatever non-negative counts the language maps hold.
C19_DenominatorPositive ==
    (Ranked /\ sorted_languages # << >>) => total_bytes > 0

====
